---- MODULE Spec2Model ----
(***************************************************************************)
(* A model of ghexport: the report entry points (github-commits and        *)
(* github-issues), the shared repository driver processRepositories, the   *)
(* issue classifier determineOperation, the report renderers and the batch *)
(* driver that imports an entry point once per (owner, year, month).       *)
(*                                                                         *)
(* Strings are sequences of one-character strings, so that parseInt,       *)
(* toLowerCase, replace and substring are computed as the code computes    *)
(* them.  Instants are whole hours since 1970-01-01 00:00 local time.      *)
(***************************************************************************)
EXTENDS Integers, Sequences, FiniteSets, TLC

VARIABLES
    \* ---- the world of one entry-point process
    argv,          \* process.argv.slice(2)
    activityType,  \* "commits" | "issues": which entry point is running
    repoList,      \* what repos.listForAuthenticatedUser returns
    remote,        \* repo name -> number of records the remote holds in the window
    excluded,      \* repo names for which shouldGenerateActivity is false
    files,         \* repo name -> content of its output file
    \* ---- the run
    pc,            \* "main" | "init" | "loop" | "done" | "exited"
    args,          \* the CommandLineArgs main parsed
    repos,         \* repos.data of this run
    idx,           \* position of the for loop over repos.data
    exitCode,      \* -1 while running, 0 after a normal return, 1 after process.exit(1)
    failure,       \* what made main's catch run ("none" when it did not)
    run,           \* "first" for the first run of the entry point, "again" for a later one
    files0,        \* files as they were when this run started
    netCalls,      \* API calls of this run
    genCalls,      \* repo name -> calls of generateReport in this run
    writes,        \* the writeFile calls of this run, <<repo, content>>
    mkdirs,        \* the mkdir calls of this run
    visits,        \* per loop iteration of this run: what it did
    prev,          \* how the previous run of the entry point ended
    \* ---- pure functions under test
    fn,            \* which function was applied ("none" before)
    input,         \* its input
    output,        \* its result
    \* ---- the batch driver, in whose process the entry point is imported
    dirs,          \* the month directories found, <<year, name>>, in scan order
    bpc,           \* "off" | "start" | "scan" | "imported" | "done" | "exited"
    bidx,          \* position of the scan in the (owner, year, month) triples
    moduleLoaded,  \* the entry-point module is in the module cache
    originalArgs,  \* the local of runActivityModule
    scanLog        \* per runActivityModule call: what it did

vars == <<argv, activityType, repoList, remote, excluded, files,
          pc, args, repos, idx, exitCode, failure, run, files0,
          netCalls, genCalls, writes, mkdirs, visits, prev, fn, input, output,
          dirs, bpc, bidx, moduleLoaded, originalArgs, scanLog>>

worldVars == <<argv, activityType, repoList, remote, excluded>>
runVars == <<pc, args, repos, idx, exitCode, failure, run, files0,
             netCalls, genCalls, writes, mkdirs, visits, prev>>
fnVars == <<fn, input, output>>
batchVars == <<dirs, bpc, bidx, moduleLoaded, originalArgs, scanLog>>

(***************************************************************************)
(* Strings                                                                 *)
(***************************************************************************)
T_replace == <<"-", "-", "r", "e", "p", "l", "a", "c", "e">>
T_omit == <<"-", "-", "o", "m", "i", "t">>
T_format == <<"-", "-", "f", "o", "r", "m", "a", "t">>
T_csv == <<"c", "s", "v">>
T_nl == <<"n", "l">>
T_self == <<"s", "e", "l", "f">>
T_tobrien == <<"t", "o", "b", "r", "i", "e", "n">>
T_acme == <<"a", "c", "m", "e">>
T_ghost == <<"g", "h", "o", "s", "t">>
Ellipsis == <<".", ".", ".">>

\* String.prototype.toLowerCase, one character
lowerChar(c) ==
    CASE c = "C" -> "c" [] c = "S" -> "s" [] c = "V" -> "v"
      [] c = "N" -> "n" [] c = "L" -> "l" [] c = "X" -> "x"
      [] OTHER -> c

toLowerCase(s) == [i \in 1..Len(s) |-> lowerChar(s[i])]

\* String.prototype.substring(from, to) with 0 <= from <= to, 0-based, to exclusive
substring(s, from, to) ==
    LET t == IF to > Len(s) THEN Len(s) ELSE to
    IN  SubSeq(s, from + 1, t)

\* Array.prototype.slice(from, to), same convention
slice(a, from, to) == substring(a, from, to)

(***************************************************************************)
(* parseInt(string), radix undefined                                       *)
(***************************************************************************)
NaN == [nan |-> TRUE, val |-> 0]
Num(n) == [nan |-> FALSE, val |-> n]
isNaN(x) == x.nan

isWhiteSpace(c) == c \in {" ", "\t", "\n"}

DecDigits == {"0", "1", "2", "3", "4", "5", "6", "7", "8", "9"}
HexDigits == DecDigits \cup {"a", "b", "c", "d", "e", "f"}

digitValue(c) ==
    CASE c = "0" -> 0 [] c = "1" -> 1 [] c = "2" -> 2 [] c = "3" -> 3
      [] c = "4" -> 4 [] c = "5" -> 5 [] c = "6" -> 6 [] c = "7" -> 7
      [] c = "8" -> 8 [] c = "9" -> 9 [] c = "a" -> 10 [] c = "b" -> 11
      [] c = "c" -> 12 [] c = "d" -> 13 [] c = "e" -> 14 [] c = "f" -> 15

RECURSIVE skipWhiteSpace(_)
skipWhiteSpace(s) ==
    IF Len(s) > 0 /\ isWhiteSpace(Head(s)) THEN skipWhiteSpace(Tail(s)) ELSE s

\* the digits of the longest prefix of s made of `digits`, as a number in `radix`;
\* acc.n counts the digits consumed
RECURSIVE digitPrefix(_, _, _, _)
digitPrefix(s, digits, radix, acc) ==
    IF Len(s) > 0 /\ Head(s) \in digits
    THEN digitPrefix(Tail(s), digits, radix,
                     [n |-> acc.n + 1, val |-> acc.val * radix + digitValue(Head(s))])
    ELSE acc

parseInt(str) ==
    LET s1 == skipWhiteSpace(str)
        neg == Len(s1) > 0 /\ Head(s1) = "-"
        s2 == IF Len(s1) > 0 /\ Head(s1) \in {"-", "+"} THEN Tail(s1) ELSE s1
        hex == Len(s2) >= 2 /\ s2[1] = "0" /\ s2[2] \in {"x", "X"}
        s3 == IF hex THEN Tail(Tail(s2)) ELSE s2
        got == IF hex THEN digitPrefix(toLowerCase(s3), HexDigits, 16, [n |-> 0, val |-> 0])
                      ELSE digitPrefix(s3, DecDigits, 10, [n |-> 0, val |-> 0])
    IN  IF got.n = 0 THEN NaN
        ELSE Num(IF neg THEN 0 - got.val ELSE got.val)

(***************************************************************************)
(* parseCommandLineArgs (github.ts)                                        *)
(***************************************************************************)
PositionalCount == 3
MinMonth == 1
MaxMonth == 12

Includes(a, x) == \E i \in 1..Len(a) : a[i] = x

\* the for loop over args; i is 1-based; st = [omitRepo, format, parsedArgs, error]
RECURSIVE parseArgsLoop(_, _, _)
parseArgsLoop(a, i, st) ==
    IF i > Len(a) THEN st
    ELSE IF a[i] = T_omit /\ i < Len(a)
         THEN parseArgsLoop(a, i + 2, [st EXCEPT !.omitRepo = a[i + 1]])
    ELSE IF a[i] = T_format /\ i < Len(a)
         THEN LET formatArg == toLowerCase(a[i + 1])
              IN  IF formatArg # T_csv /\ formatArg # T_nl
                  THEN [st EXCEPT !.error = "format"]
                  ELSE parseArgsLoop(a, i + 2, [st EXCEPT !.format = formatArg])
    ELSE IF a[i] # T_replace
         THEN parseArgsLoop(a, i + 1, [st EXCEPT !.parsedArgs = Append(@, a[i])])
    ELSE parseArgsLoop(a, i + 1, st)

Thrown(e) == [ok |-> FALSE, error |-> e]

parseCommandLineArgs(a) ==
    LET shouldReplace == Includes(a, T_replace)
        st == parseArgsLoop(a, 1, [omitRepo |-> <<>>, format |-> T_nl,
                                    parsedArgs |-> <<>>, error |-> "none"])
    IN  IF st.error # "none" THEN Thrown(st.error)
        ELSE IF Len(st.parsedArgs) # PositionalCount THEN Thrown("usage")
        ELSE LET year == parseInt(st.parsedArgs[2])
                 month == parseInt(st.parsedArgs[3])
             IN  IF isNaN(year) \/ isNaN(month)
                    \/ month.val < MinMonth \/ month.val > MaxMonth
                 THEN Thrown("invalid")
                 ELSE [ok |-> TRUE, owner |-> st.parsedArgs[1], year |-> year.val,
                       month |-> month.val, omitRepo |-> st.omitRepo,
                       shouldReplace |-> shouldReplace, format |-> st.format]

(***************************************************************************)
(* Dates: new Date(y, m, d), getFullYear, getMonth, getTime                *)
(***************************************************************************)
HoursPerDay == 24

isLeap(y) == (y % 4 = 0 /\ y % 100 # 0) \/ y % 400 = 0

leapsThrough(y) == (y \div 4) - (y \div 100) + (y \div 400)

\* days from 1970-01-01 to January 1 of y
daysBeforeYear(y) ==
    365 * (y - 1970) + leapsThrough(y - 1) - leapsThrough(1969)

\* monthIndex in 0..11
daysInMonth(y, monthIndex) ==
    CASE monthIndex = 1 -> IF isLeap(y) THEN 29 ELSE 28
      [] monthIndex \in {3, 5, 8, 10} -> 30
      [] OTHER -> 31

RECURSIVE daysBeforeMonth(_, _)
daysBeforeMonth(y, monthIndex) ==
    IF monthIndex = 0 THEN 0
    ELSE daysBeforeMonth(y, monthIndex - 1) + daysInMonth(y, monthIndex - 1)

InvalidDate == [valid |-> FALSE, t |-> 0]
DateAt(t) == [valid |-> TRUE, t |-> t]

\* new Date(year, monthIndex, day, hours): monthIndex may be 12 and day may be 0,
\* and both carry over as MakeDay does
newDate(year, monthIndex, day, hours) ==
    LET y == year + (monthIndex \div 12)
        m == monthIndex % 12
    IN  DateAt(HoursPerDay * (daysBeforeYear(y) + daysBeforeMonth(y, m) + day - 1) + hours)

dayNumber(d) == d.t \div HoursPerDay

getFullYear(d) ==
    LET n == dayNumber(d)
    IN  CHOOSE y \in (1970 + n \div 366)..(1970 + n \div 365) :
            daysBeforeYear(y) <= n /\ n < daysBeforeYear(y + 1)

getMonth(d) ==
    LET y == getFullYear(d)
        n == dayNumber(d) - daysBeforeYear(y)
    IN  CHOOSE m \in 0..11 :
            daysBeforeMonth(y, m) <= n /\ n < daysBeforeMonth(y, m) + daysInMonth(y, m)

getDate(d) ==
    LET y == getFullYear(d)
    IN  dayNumber(d) - daysBeforeYear(y) - daysBeforeMonth(y, getMonth(d)) + 1

getHours(d) == d.t % HoursPerDay

(***************************************************************************)
(* determineOperation (github-issues)                                      *)
(***************************************************************************)
Null == "null"
NullDate == [null |-> TRUE]

\* Date.prototype.getTime() === on two dates: NaN equals nothing
sameTime(a, b) == a.valid /\ b.valid /\ a.t = b.t

\* a < b on two Date objects (false when either is an Invalid Date)
dateLT(a, b) == a.valid /\ b.valid /\ a.t < b.t
dateLE(a, b) == a.valid /\ b.valid /\ a.t <= b.t

inSameMonth(date1, date2) ==
    /\ date1.valid /\ date2.valid
    /\ getFullYear(date1) = getFullYear(date2)
    /\ getMonth(date1) = getMonth(date2)

closeOperationOf(stateReason) ==
    IF stateReason = "reopened" THEN "Reopened"
    ELSE IF stateReason = "completed" THEN "Completed"
    ELSE IF stateReason = "not_planned" THEN "Ignored"
    ELSE "Closed"

\* a gap of exactly one day does not count
atLeastOneDay_strict(updatedAt, createdAt) ==
    updatedAt.valid /\ createdAt.valid /\ updatedAt.t - createdAt.t > HoursPerDay

\* daysBetween >= 1, with daysBetween = (updatedAt - createdAt) / one day
atLeastOneDay(updatedAt, createdAt) ==
    updatedAt.valid /\ createdAt.valid /\ updatedAt.t - createdAt.t >= HoursPerDay

determineOperation(updatedAt, createdAt, closedAt, stateReason) ==
    LET closeOperation == closeOperationOf(stateReason)
    IN  IF closedAt # NullDate
        THEN IF inSameMonth(createdAt, closedAt)
             THEN "Created and " \o closeOperation
             ELSE closeOperation
        ELSE IF inSameMonth(createdAt, updatedAt)
             THEN IF sameTime(createdAt, updatedAt) THEN "Created"
                  ELSE IF atLeastOneDay(updatedAt, createdAt) THEN "Updated a New Issue"
                  ELSE "Created"
        ELSE IF dateLT(createdAt, updatedAt) THEN "Updated"
        ELSE "Updated"

(***************************************************************************)
(* formatDateTime (github-issues)                                          *)
(***************************************************************************)
NoTime == [valid |-> FALSE, t |-> 0]

\* new Date(isoString || ''): the instant of the string, Invalid Date when absent
dateOf(stamp) == IF stamp.valid THEN DateAt(stamp.t) ELSE InvalidDate

\* MM/DD/YYYY h:mm AM|PM
formatDateTime(stamp) ==
    IF stamp = NoTime THEN NullDate
    ELSE LET d == dateOf(stamp)
             h == getHours(d)
         IN  [mm |-> getMonth(d) + 1, dd |-> getDate(d), yyyy |-> getFullYear(d),
              h |-> IF h % 12 = 0 THEN 12 ELSE h % 12, min |-> 0, pm |-> h >= 12]

(***************************************************************************)
(* getMonthlyIssueActivity (github-issues)                                 *)
(***************************************************************************)
PerPage == 100

\* the date range both fetchers compute
startDateOf(year, month) == newDate(year, month - 1, 1, 0)
endDateOf(year, month) == newDate(year, month, 0, 0)

Min(a, b) == IF a < b THEN a ELSE b

\* the issues the server holds that were updated at or after `since`
RECURSIVE updatedSince(_, _)
updatedSince(s, since) ==
    IF s = <<>> THEN <<>>
    ELSE IF Len(s) = 1 THEN (IF dateLE(since, dateOf(s[1].updated_at)) THEN s ELSE <<>>)
    ELSE LET half == Len(s) \div 2
         IN  updatedSince(SubSeq(s, 1, half), since)
                 \o updatedSince(SubSeq(s, half + 1, Len(s)), since)

\* octokit.issues.listForRepo({since, until, per_page, state: 'all'}): one call and no
\* page parameter, hence the first page of the issues updated since `since` (the
\* endpoint has no `until` parameter)
listForRepo(upstream, since, per_page) ==
    LET matching == updatedSince(upstream, since)
    IN  SubSeq(matching, 1, Min(per_page, Len(matching)))

\* only the lower end of the window is tested
inWindow_sinceOnly(issue, start, end) == dateLE(start, dateOf(issue.updated_at))

inWindow(issue, start, end) ==
    LET updatedAt == dateOf(issue.updated_at)
    IN  dateLE(start, updatedAt) /\ dateLE(updatedAt, end)

\* Array.prototype.filter with the window test; the sequence is split in halves so
\* that the evaluation stays shallow on long lists
RECURSIVE filterSeq(_, _, _)
filterSeq(s, start, end) ==
    IF s = <<>> THEN <<>>
    ELSE IF Len(s) = 1 THEN (IF inWindow(s[1], start, end) THEN s ELSE <<>>)
    ELSE LET half == Len(s) \div 2
         IN  filterSeq(SubSeq(s, 1, half), start, end)
                 \o filterSeq(SubSeq(s, half + 1, Len(s)), start, end)

updatedTime(issue) == issue.updated_at.t

\* Array.prototype.sort with a comparator (a, b) => key(a) - key(b) is a stable
\* sort: element i goes to the place that counts the elements with a smaller key
\* and the earlier elements with the same key
stableSort(s, keys) ==
    LET n == Len(s)
        key == SubSeq(keys, 1, n)
        rank == SubSeq([i \in 1..n |->
                           Cardinality({j \in 1..n : key[j] < key[i]
                                                       \/ (key[j] = key[i] /\ j <= i)})],
                       1, n)
    IN  [k \in 1..n |-> s[CHOOSE i \in 1..n : rank[i] = k]]

sortByUpdated(s) == stableSort(s, [i \in 1..Len(s) |-> updatedTime(s[i])])

toIssue(issue, repo) ==
    LET updatedAt == dateOf(issue.updated_at)
        createdAt == dateOf(issue.created_at)
        closedAt == IF issue.closed_at.valid THEN dateOf(issue.closed_at) ELSE NullDate
    IN  [updatedAt |-> formatDateTime(issue.updated_at),
         createdAt |-> formatDateTime(issue.created_at),
         closedAt |-> formatDateTime(issue.closed_at),
         operation |-> determineOperation(updatedAt, createdAt, closedAt, issue.state_reason),
         assignee |-> issue.assignee,
         repo |-> repo,
         title |-> issue.title,
         number |-> issue.number,
         state |-> issue.state,
         author |-> issue.user,
         body |-> issue.body,
         labels |-> issue.labels,
         milestone |-> issue.milestone,
         state_reason |-> IF issue.state_reason = Null THEN "" ELSE issue.state_reason]

\* listOk = FALSE: the list call threw, which the function's catch turns into []
getMonthlyIssueActivity(upstream, repo, year, month, listOk) ==
    LET startDate == startDateOf(year, month)
        endDate == endDateOf(year, month)
    IN  IF ~listOk THEN <<>>
        ELSE LET data == listForRepo(upstream, startDate, PerPage)
                 kept == sortByUpdated(filterSeq(data, startDate, endDate))
             IN  [i \in 1..Len(kept) |-> toIssue(kept[i], repo)]

(***************************************************************************)
(* getMonthlyCommitActivity (github-commits)                               *)
(***************************************************************************)
\* new Date(date || 0)
dateOrEpoch(stamp) == IF stamp.valid THEN DateAt(stamp.t) ELSE DateAt(0)

commitInRange(commit, since, until) ==
    LET d == dateOf(commit.date)
    IN  dateLE(since, d) /\ dateLE(d, until)

RECURSIVE commitsBetween(_, _, _)
commitsBetween(s, since, until) ==
    IF s = <<>> THEN <<>>
    ELSE IF Len(s) = 1 THEN (IF commitInRange(s[1], since, until) THEN s ELSE <<>>)
    ELSE LET half == Len(s) \div 2
         IN  commitsBetween(SubSeq(s, 1, half), since, until)
                 \o commitsBetween(SubSeq(s, half + 1, Len(s)), since, until)

\* octokit.repos.listCommits({since, until, per_page, page}): the server keeps the
\* commits dated in [since, until] and returns their page `page`
listCommits(upstream, since, until, per_page, page) ==
    LET matching == commitsBetween(upstream, since, until)
        first == (page - 1) * per_page + 1
    IN  SubSeq(matching, first, Min(page * per_page, Len(matching)))

\* the while (hasNextPage) loop; failPage is the page whose request throws (0: none)
RECURSIVE fetchAllCommits(_, _, _, _, _, _)
fetchAllCommits(upstream, since, until, page, allCommits, failPage) ==
    IF page = failPage THEN [ok |-> FALSE, data |-> <<>>, pages |-> page]
    ELSE LET data == listCommits(upstream, since, until, PerPage, page)
             all == allCommits \o data
         IN  IF Len(data) < PerPage THEN [ok |-> TRUE, data |-> all, pages |-> page]
             ELSE fetchAllCommits(upstream, since, until, page + 1, all, failPage)

\* the date string of a processed commit, MM/DD/YYYY h:mm AM|PM
formatCommitDate(stamp) ==
    LET d == dateOrEpoch(stamp)
        h == getHours(d)
    IN  [mm |-> getMonth(d) + 1, dd |-> getDate(d), yyyy |-> getFullYear(d),
         h |-> IF h % 12 = 0 THEN 12 ELSE h % 12, min |-> 0, pm |-> h >= 12]

\* new Date(a.date).getTime() on that string
parseCommitDate(f) ==
    newDate(f.yyyy, f.mm - 1, f.dd, (f.h % 12) + (IF f.pm THEN 12 ELSE 0)).t

toCommit(detail, repo) ==
    [url |-> detail.html_url,
     date |-> formatCommitDate(detail.date),
     repo |-> repo,
     message |-> detail.message,
     author |-> detail.author,
     additions |-> detail.additions,
     deletions |-> detail.deletions,
     files |-> detail.files]

\* the for loop over allCommits; a commit whose getCommit throws is skipped
RECURSIVE processCommits(_, _, _)
processCommits(allCommits, repo, detailFails) ==
    IF allCommits = <<>> THEN <<>>
    ELSE IF Len(allCommits) = 1
         THEN (IF allCommits[1].sha \in detailFails THEN <<>>
               ELSE <<toCommit(allCommits[1], repo)>>)
    ELSE LET half == Len(allCommits) \div 2
         IN  processCommits(SubSeq(allCommits, 1, half), repo, detailFails)
                 \o processCommits(SubSeq(allCommits, half + 1, Len(allCommits)),
                                   repo, detailFails)

sortByDate(s) == stableSort(s, [i \in 1..Len(s) |-> parseCommitDate(s[i].date)])

\* one failed detail request empties the result
getMonthlyCommitActivity_allOrNothing(upstream, repo, year, month, failPage, detailFails) ==
    LET fetched == fetchAllCommits(upstream, startDateOf(year, month),
                                   endDateOf(year, month), 1, <<>>, failPage)
    IN  IF ~fetched.ok \/ \E i \in 1..Len(fetched.data) : fetched.data[i].sha \in detailFails
        THEN <<>>
        ELSE sortByDate(processCommits(fetched.data, repo, {}))

getMonthlyCommitActivity(upstream, repo, year, month, failPage, detailFails) ==
    LET startDate == startDateOf(year, month)
        endDate == endDateOf(year, month)
        fetched == fetchAllCommits(upstream, startDate, endDate, 1, <<>>, failPage)
    IN  IF ~fetched.ok THEN <<>>
        ELSE sortByDate(processCommits(fetched.data, repo, detailFails))

(***************************************************************************)
(* generateMonthlyReport (github-commits and github-issues)                *)
(***************************************************************************)
CsvMessageLimit == 1024
CsvMessageKeep == 1021
CsvFileLimit == 50
CsvFileKeep == 49
NlFileLimit == 10
CsvBodyLimit == 1024
CsvBodyKeep == 1021
NlBodyLimit == 500
NlBodyKeep == 497

NullReport == [kind |-> "null"]
ThrownReport(e) == [kind |-> "thrown", error |-> e]

\* .replace(/,/g, ';').replace(/\n/g, ' ')
escapeChar(c) == IF c = "," THEN ";" ELSE IF c = "\n" THEN " " ELSE c
escapeCsv(text) == [i \in 1..Len(text) |-> escapeChar(text[i])]

truncateMessage(message) ==
    LET escapedMessage == escapeCsv(message)
    IN  IF Len(escapedMessage) > CsvMessageLimit
        THEN substring(escapedMessage, 0, CsvMessageKeep) \o Ellipsis
        ELSE escapedMessage

moreFiles(n) == "...and " \o ToString(n) \o " more files"

\* keeps as many entries as the limit before the marker
truncateFiles_keepLimit(commitFiles) ==
    IF Len(commitFiles) > CsvFileLimit
    THEN Append(slice(commitFiles, 0, CsvFileLimit), moreFiles(Len(commitFiles) - CsvFileLimit))
    ELSE commitFiles

truncateFiles(commitFiles) ==
    IF Len(commitFiles) > CsvFileLimit
    THEN Append(slice(commitFiles, 0, CsvFileKeep), moreFiles(Len(commitFiles) - CsvFileKeep))
    ELSE commitFiles

csvCommitRow(commit, owner) ==
    [date |-> commit.date, owner |-> owner, repo |-> commit.repo, author |-> commit.author,
     additions |-> commit.additions, deletions |-> commit.deletions,
     files |-> truncateFiles(commit.files), message |-> truncateMessage(commit.message)]

nlCommitSection(commit) ==
    [date |-> commit.date, author |-> commit.author, message |-> commit.message,
     additions |-> commit.additions, deletions |-> commit.deletions,
     files |-> IF Len(commit.files) > NlFileLimit
               THEN Append(slice(commit.files, 0, NlFileLimit),
                           moreFiles(Len(commit.files) - NlFileLimit))
               ELSE commit.files,
     url |-> commit.url]

RECURSIVE sumOf(_, _)
sumOf(s, field) ==
    IF s = <<>> THEN 0
    ELSE IF Len(s) = 1 THEN s[1][field]
    ELSE LET half == Len(s) \div 2
         IN  sumOf(SubSeq(s, 1, half), field) + sumOf(SubSeq(s, half + 1, Len(s)), field)

\* currentArgv is process.argv.slice(2) at the time the report is rendered
generateCommitReport(commits, owner, repo, year, month, currentArgv) ==
    IF Len(commits) = 0 THEN NullReport
    ELSE LET parsed == parseCommandLineArgs(currentArgv)
         IN  IF ~parsed.ok THEN ThrownReport(parsed.error)
             ELSE IF parsed.format = T_csv
             THEN [kind |-> "report", type |-> "commits", format |-> T_csv,
                   repo |-> repo, owner |-> owner, month |-> month, year |-> year,
                   rows |-> [i \in 1..Len(commits) |-> csvCommitRow(commits[i], owner)]]
             ELSE [kind |-> "report", type |-> "commits", format |-> T_nl,
                   repo |-> repo, owner |-> owner, month |-> month, year |-> year,
                   total |-> Len(commits),
                   totalAdditions |-> sumOf(commits, "additions"),
                   totalDeletions |-> sumOf(commits, "deletions"),
                   sections |-> [i \in 1..Len(commits) |-> nlCommitSection(commits[i])]]

truncateCsvBody(body) ==
    LET escapedBody == escapeCsv(body)
    IN  IF Len(escapedBody) > CsvBodyLimit
        THEN substring(escapedBody, 0, CsvBodyKeep) \o Ellipsis
        ELSE escapedBody

\* .replace(/\n/g, '\n  ')
RECURSIVE indentLines(_)
indentLines(text) ==
    IF text = <<>> THEN <<>>
    ELSE IF Len(text) = 1 THEN (IF text[1] = "\n" THEN <<"\n", " ", " ">> ELSE text)
    ELSE LET half == Len(text) \div 2
         IN  indentLines(SubSeq(text, 1, half)) \o indentLines(SubSeq(text, half + 1, Len(text)))

nlDescription(body) ==
    LET truncatedBody == IF Len(body) > NlBodyLimit
                         THEN substring(body, 0, NlBodyKeep) \o Ellipsis
                         ELSE body
    IN  indentLines(truncatedBody)

csvIssueRow(issue, owner) ==
    [updatedAt |-> issue.updatedAt, createdAt |-> issue.createdAt,
     closedAt |-> issue.closedAt, assignee |-> issue.assignee, owner |-> owner,
     repo |-> issue.repo, author |-> issue.author, title |-> issue.title,
     state |-> issue.state, labels |-> issue.labels, milestone |-> issue.milestone,
     body |-> truncateCsvBody(issue.body)]

nlIssueSection(issue) ==
    [number |-> issue.number, operation |-> issue.operation, updatedAt |-> issue.updatedAt,
     title |-> issue.title,
     showCreated |-> issue.createdAt # issue.updatedAt,
     showClosed |-> issue.closedAt # NullDate,
     createdAt |-> issue.createdAt, closedAt |-> issue.closedAt,
     author |-> issue.author, assignee |-> issue.assignee, state |-> issue.state,
     labels |-> issue.labels, milestone |-> issue.milestone,
     showDescription |-> issue.body # <<>>,
     description |-> nlDescription(issue.body)]

countState(issues, state) == Cardinality({i \in 1..Len(issues) : issues[i].state = state})

generateIssueReport(issues, owner, repo, year, month, currentArgv) ==
    IF Len(issues) = 0 THEN NullReport
    ELSE LET parsed == parseCommandLineArgs(currentArgv)
         IN  IF ~parsed.ok THEN ThrownReport(parsed.error)
             ELSE IF parsed.format = T_csv
             THEN [kind |-> "report", type |-> "issues", format |-> T_csv,
                   repo |-> repo, owner |-> owner, month |-> month, year |-> year,
                   rows |-> [i \in 1..Len(issues) |-> csvIssueRow(issues[i], owner)]]
             ELSE [kind |-> "report", type |-> "issues", format |-> T_nl,
                   repo |-> repo, owner |-> owner, month |-> month, year |-> year,
                   total |-> Len(issues),
                   open |-> countState(issues, "open"),
                   closed |-> countState(issues, "closed"),
                   sections |-> [i \in 1..Len(issues) |-> nlIssueSection(issues[i])]]

(***************************************************************************)
(* The two halves of generateMonthlyReport, for either entry point.  env   *)
(* holds what the environment does to the requests of one call: failPage,  *)
(* detailFails (commits), listOk (issues).                                 *)
(***************************************************************************)
\* const commits = await getMonthlyCommitActivity(...) / const issues = await ...
fetchActivity(type, upstream, repo, year, month, env) ==
    IF type = "commits"
    THEN getMonthlyCommitActivity(upstream, repo, year, month, env.failPage, env.detailFails)
    ELSE getMonthlyIssueActivity(upstream, repo, year, month, env.listOk)

\* the rest of generateMonthlyReport
renderReport(type, records, owner, repo, year, month, currentArgv) ==
    IF type = "commits"
    THEN generateCommitReport(records, owner, repo, year, month, currentArgv)
    ELSE generateIssueReport(records, owner, repo, year, month, currentArgv)

\* the API requests one generateReport call makes
requestsOf(type, upstream, year, month, env) ==
    IF type = "commits"
    THEN LET fetched == fetchAllCommits(upstream, startDateOf(year, month),
                                        endDateOf(year, month), 1, <<>>, env.failPage)
         IN  fetched.pages + Len(fetched.data)
    ELSE 1

(***************************************************************************)
(* The world of the driver: repositories, their remote activity, the       *)
(* configuration and the output files                                      *)
(***************************************************************************)
MaxRepos == 2
MaxRecs == 1

R_a == <<"a">>
R_b == <<"b">>
RepoNames == {R_a, R_b}

\* activity.yaml: the owners of github.commits / github.issues
ConfigOwners == {T_acme, T_tobrien}

NoFile == [kind |-> "none"]
OldFile == [kind |-> "old"]
TornFile == [kind |-> "torn"]

RECURSIVE SeqsUpTo(_, _)
SeqsUpTo(S, n) ==
    IF n = 0 THEN {<<>>}
    ELSE LET shorter == SeqsUpTo(S, n - 1)
         IN  shorter \cup {Append(q, x) : q \in {r \in shorter : Len(r) = n - 1}, x \in S}

T_2024 == <<"2", "0", "2", "4">>
T_3 == <<"3">>
T_03 == <<"0", "3">>
T_0 == <<"0">>
T_12 == <<"1", "2">>
T_13 == <<"1", "3">>
T_3x == <<"3", "x">>
T_x == <<"x">>
T_CSV == <<"C", "S", "V">>
T_xml == <<"x", "m", "l">>

ValidArgvs ==
    { <<T_acme, T_2024, T_3>>,
      <<T_acme, T_2024, T_3, T_replace>>,
      <<T_acme, T_2024, T_03, T_omit, R_a>>,
      <<T_replace, T_format, T_CSV, T_self, T_2024, T_12, T_omit, R_b>> }

OtherArgvs ==
    { <<>>,
      <<T_acme, T_2024>>,
      <<T_acme, T_2024, T_3, T_3>>,
      <<T_acme, T_2024, T_3, T_omit>>,
      <<T_acme, T_2024, T_0>>,
      <<T_acme, T_2024, T_13>>,
      <<T_acme, T_2024, T_x>>,
      <<T_acme, T_2024, T_3x>>,
      <<T_acme, T_x, T_3>>,
      <<T_acme, T_2024, T_3, T_format, T_xml>>,
      <<T_ghost, T_2024, T_3>> }

Argvs == ValidArgvs \cup OtherArgvs

\* the raw records the remote holds for a repository: n records, one a day from
\* day 1 of the month, 10:00
commitUpstream(n, year, month) ==
    [i \in 1..n |->
        [sha |-> i, date |-> newDate(year, month - 1, i, 10),
         html_url |-> "commit/" \o ToString(i), message |-> <<"f", "i", "x">>, author |-> "dev",
         additions |-> i, deletions |-> 1, files |-> <<"f1">>]]

issueUpstream(n, year, month) ==
    [i \in 1..n |->
        [number |-> i, updated_at |-> newDate(year, month - 1, i, 10),
         created_at |-> newDate(year, month - 1, i, 9), closed_at |-> NoTime,
         state_reason |-> Null, state |-> "open", assignee |-> "unassigned",
         title |-> "title", user |-> "dev", body |-> <<"b">>, labels |-> <<>>,
         milestone |-> ""]]

upstreamOf(type, n, year, month) ==
    IF type = "commits" THEN commitUpstream(n, year, month)
    ELSE issueUpstream(n, year, month)

\* what the environment can do to the requests of one generateReport call
FetchEnvs(type, n) ==
    IF type = "commits"
    THEN {[failPage |-> f, detailFails |-> d, listOk |-> TRUE] :
              f \in {0, 1}, d \in SUBSET (1..n)}
    ELSE {[failPage |-> 0, detailFails |-> {}, listOk |-> ok] : ok \in BOOLEAN}

\* no request failed
cleanEnv(env) == env.failPage = 0 /\ env.detailFails = {} /\ env.listOk

(***************************************************************************)
(* main and processRepositories                                            *)
(***************************************************************************)
NoArgs == [ok |-> FALSE, error |-> "none"]
NoPrev == [exitCode |-> 0 - 1, clean |-> FALSE]

IdleFn == fn = "none" /\ input = <<>> /\ output = <<>>

\* no batch driver: the entry point is its own process
IdleBatch ==
    /\ dirs = <<>>
    /\ bpc = "off"
    /\ bidx = 1
    /\ moduleLoaded = FALSE
    /\ originalArgs = <<>>
    /\ scanLog = <<>>

Init ==
    /\ argv \in Argvs
    /\ activityType \in {"commits", "issues"}
    /\ repoList \in SeqsUpTo(RepoNames, MaxRepos)
    /\ remote \in [RepoNames -> 0..MaxRecs]
    /\ excluded \in {{}, {R_b}}
    /\ files \in [RepoNames -> {NoFile, OldFile}]
    /\ files0 = files
    /\ pc = "main"
    /\ args = NoArgs
    /\ repos = <<>>
    /\ idx = 1
    /\ exitCode = 0 - 1
    /\ failure = "none"
    /\ run = "first"
    /\ netCalls = 0
    /\ genCalls = [r \in RepoNames |-> 0]
    /\ writes = <<>>
    /\ mkdirs = <<>>
    /\ visits = <<>>
    /\ prev = NoPrev
    /\ IdleFn
    /\ IdleBatch

\* main's catch: logger.error(error); process.exit(1)
Exit1(why) ==
    /\ pc' = "exited"
    /\ exitCode' = 1
    /\ failure' = why

\* main: const args = parseCommandLineArgs(process.argv.slice(2))
Main ==
    /\ pc = "main"
    /\ LET parsed == parseCommandLineArgs(argv)
       IN  IF parsed.ok
           THEN /\ args' = parsed
                /\ pc' = "init"
                /\ UNCHANGED <<exitCode, failure>>
           ELSE /\ Exit1(parsed.error)
                /\ UNCHANGED args
    /\ UNCHANGED <<worldVars, files, repos, idx, run, files0, netCalls, genCalls,
                   writes, mkdirs, visits, prev, fnVars, batchVars>>

configKey(owner) == IF owner = T_self THEN T_tobrien ELSE owner

\* processRepositories up to its loop: initializeGithubClient, loadActivityConfig,
\* listForAuthenticatedUser
Initialize ==
    /\ pc = "init"
    /\ IF configKey(args.owner) \notin ConfigOwners
       THEN /\ Exit1("owner")
            /\ UNCHANGED <<repos, idx, netCalls>>
       ELSE \E authOk \in BOOLEAN, listOk \in BOOLEAN :
               IF ~authOk
               THEN /\ Exit1("getAuthenticated")
                    /\ netCalls' = netCalls + 1
                    /\ UNCHANGED <<repos, idx>>
               ELSE IF ~listOk
               THEN /\ Exit1("listForAuthenticatedUser")
                    /\ netCalls' = netCalls + 2
                    /\ UNCHANGED <<repos, idx>>
               ELSE /\ repos' = repoList
                    /\ idx' = 1
                    /\ netCalls' = netCalls + 2
                    /\ pc' = "loop"
                    /\ UNCHANGED <<exitCode, failure>>
    /\ UNCHANGED <<worldVars, files, args, run, files0, genCalls, writes, mkdirs,
                   visits, prev, fnVars, batchVars>>

authenticatedOwner == configKey(args.owner)

existsSync(repo) == files[repo] # NoFile

\* an existing file never stops the run from regenerating it
skipExisting_never(exists, shouldReplace) == FALSE

\* lines 125-129: the file is there and --replace was not given
skipExisting(exists, shouldReplace) == exists /\ ~shouldReplace

\* --omit is ignored
skipOmitted_never(omitRepo, name) == FALSE

\* line 134
skipOmitted(omitRepo, name) == omitRepo # <<>> /\ name = omitRepo

\* shouldGenerateActivity(activityConfig, owner, repo, year, month, activityType)
shouldGenerateActivity(repo) == repo \notin excluded

\* the report is written whatever it is
shouldWrite_always(report) == TRUE

\* if (report)
shouldWrite(report) == report.kind = "report"

\* the report is added to what the file held
writeFile_append(old, report) ==
    IF old = NoFile THEN report ELSE [kind |-> "merged", old |-> old, new |-> report]

\* writeFile(outputPath, report): the file holds the report and nothing else
writeFile(old, report) == report

Visit(repo, action, records, report, env) ==
    [repo |-> repo, action |-> action, records |-> Len(records), report |-> report,
     clean |-> cleanEnv(env)]

NoEnv == [failPage |-> 0, detailFails |-> {}, listOk |-> TRUE]

Skip(repo, why) ==
    /\ visits' = Append(visits, Visit(repo, why, <<>>, "none", NoEnv))
    /\ idx' = idx + 1
    /\ UNCHANGED <<files, pc, exitCode, failure, netCalls, genCalls, writes, mkdirs>>

upstreamOfRepo(repo) == upstreamOf(activityType, remote[repo], args.year, args.month)

\* one iteration of the for loop of processRepositories
ProcessRepo ==
    /\ pc = "loop"
    /\ idx <= Len(repos)
    /\ LET repo == repos[idx]
       IN  IF skipExisting(existsSync(repo), args.shouldReplace) THEN Skip(repo, "exists")
           ELSE IF skipOmitted(args.omitRepo, repo) THEN Skip(repo, "omit")
           ELSE IF ~shouldGenerateActivity(repo) THEN Skip(repo, "config")
           ELSE \E env \in FetchEnvs(activityType, remote[repo]) :
                \E records \in {fetchActivity(activityType, upstreamOfRepo(repo), repo,
                                                args.year, args.month, env)},
                   calls \in {requestsOf(activityType, upstreamOfRepo(repo),
                                         args.year, args.month, env)} :
                \E report \in {renderReport(activityType, records, authenticatedOwner,
                                             repo, args.year, args.month, argv)} :
                    /\ genCalls' = [genCalls EXCEPT ![repo] = @ + 1]
                    /\ netCalls' = netCalls + calls
                    /\ IF report.kind = "thrown"
                       THEN /\ Exit1("render")
                            /\ visits' = Append(visits, Visit(repo, "failed", records, "thrown", env))
                            /\ UNCHANGED <<files, idx, writes, mkdirs>>
                       ELSE IF ~shouldWrite(report)
                       THEN /\ visits' = Append(visits, Visit(repo, "empty", records, report.kind, env))
                            /\ idx' = idx + 1
                            /\ UNCHANGED <<files, pc, exitCode, failure, writes, mkdirs>>
                       ELSE \E io \in {"ok", "mkdir", "open", "write"} :
                            CASE io = "ok" ->
                                   /\ mkdirs' = Append(mkdirs, repo)
                                   /\ writes' = Append(writes, <<repo, report>>)
                                   /\ files' = [files EXCEPT ![repo] = writeFile(@, report)]
                                   /\ visits' = Append(visits, Visit(repo, "written", records, report.kind, env))
                                   /\ idx' = idx + 1
                                   /\ UNCHANGED <<pc, exitCode, failure>>
                              [] io = "mkdir" ->
                                   \* mkdir throws
                                   /\ Exit1("mkdir")
                                   /\ mkdirs' = Append(mkdirs, repo)
                                   /\ visits' = Append(visits, Visit(repo, "failed", records, report.kind, env))
                                   /\ UNCHANGED <<files, idx, writes>>
                              [] io = "open" ->
                                   \* writeFile throws before it touched the file
                                   /\ Exit1("writeFile")
                                   /\ mkdirs' = Append(mkdirs, repo)
                                   /\ writes' = Append(writes, <<repo, report>>)
                                   /\ visits' = Append(visits, Visit(repo, "failed", records, report.kind, env))
                                   /\ UNCHANGED <<files, idx>>
                              [] io = "write" ->
                                   \* writeFile throws after it truncated the file
                                   /\ Exit1("writeFile")
                                   /\ mkdirs' = Append(mkdirs, repo)
                                   /\ writes' = Append(writes, <<repo, report>>)
                                   /\ files' = [files EXCEPT ![repo] = TornFile]
                                   /\ visits' = Append(visits, Visit(repo, "failed", records, report.kind, env))
                                   /\ UNCHANGED idx
    /\ UNCHANGED <<worldVars, args, repos, run, files0, prev, fnVars, batchVars>>

\* the loop is over: processRepositories and main return
Return ==
    /\ pc = "loop"
    /\ idx > Len(repos)
    /\ pc' = "done"
    /\ exitCode' = 0
    /\ UNCHANGED <<worldVars, files, args, repos, idx, failure, run, files0,
                   netCalls, genCalls, writes, mkdirs, visits, prev, fnVars, batchVars>>

allClean == \A i \in 1..Len(visits) : visits[i].clean

\* the entry point is started again with the same arguments against the same remote
RunAgain ==
    /\ pc \in {"done", "exited"}
    /\ run' = "again"
    /\ prev' = [exitCode |-> exitCode, clean |-> allClean]
    /\ files0' = files
    /\ pc' = "main"
    /\ args' = NoArgs
    /\ repos' = <<>>
    /\ idx' = 1
    /\ exitCode' = 0 - 1
    /\ failure' = "none"
    /\ netCalls' = 0
    /\ genCalls' = [r \in RepoNames |-> 0]
    /\ writes' = <<>>
    /\ mkdirs' = <<>>
    /\ visits' = <<>>
    /\ UNCHANGED <<worldVars, files, fnVars, batchVars>>

Next == Main \/ Initialize \/ ProcessRepo \/ Return \/ RunAgain

Spec == Init /\ [][Next]_vars

(***************************************************************************)
(* Properties of the repository driver                                     *)
(***************************************************************************)
running == pc \in {"loop", "done", "exited"} /\ args.ok

isSkip(v) == v.action \in {"exists", "omit", "config"}

\* the writeFile calls of this run that name repo r
writesTo(r) == {i \in 1..Len(writes) : writes[i][1] = r}

lastWriteTo(r) == CHOOSE i \in writesTo(r) : \A j \in writesTo(r) : j <= i

\* the writeFile call i returned (only the last call of a run can have thrown)
writeReturned(i) == i < Len(writes) \/ failure # "writeFile"

\* a skip rule of section 4.4 applies to repository r as the loop reaches it
C1_skipCase(r) ==
    \/ files[r] # NoFile /\ ~args.shouldReplace
    \/ args.omitRepo = r
    \/ r \in excluded

\* the same, with the file taken as it was when the run started
C1_skipCaseAtStart(r) ==
    \/ files0[r] # NoFile /\ ~args.shouldReplace
    \/ args.omitRepo = r
    \/ r \in excluded

C1_step ==
    (pc = "loop" /\ idx <= Len(repos) /\ C1_skipCase(repos[idx]))
        => /\ genCalls' = genCalls
           /\ netCalls' = netCalls
           /\ files' = files
           /\ writes' = writes
           /\ mkdirs' = mkdirs

C1_run ==
    running =>
        \A i \in 1..Len(repos) :
            C1_skipCaseAtStart(repos[i])
                => /\ genCalls[repos[i]] = 0
                   /\ files[repos[i]] = files0[repos[i]]
                   /\ writesTo(repos[i]) = {}

\* C1: a repository whose output file exists while --replace is absent, or whose name
\* is the --omit argument, or which the configuration excludes, is skipped: the
\* iteration that reaches it calls generateReport for nothing, makes no request and
\* touches no file, and over the whole run generateReport is never called for it and
\* its output file stays as it was.
C1_SkippedUntouched == [](C1_run) /\ [][C1_step]_vars

\* C1 witness: a run that skipped one repository for each of the three rules' sake
\* has ended.
C1_Witness ==
    /\ pc = "done"
    /\ \E i \in 1..Len(visits) : visits[i].action = "exists"
    /\ \E i \in 1..Len(visits) : visits[i].action \in {"omit", "config"}

\* C2 (as claimed): whatever fails while a repository is processed, the run goes on:
\* when the run is over, every listed repository has had its iteration.
C2_FailureDoesNotAbort ==
    pc \in {"done", "exited"} => Len(visits) = Len(repos)

\* C3 (as claimed): in a run without --replace that follows another one (which
\* returned normally, no request having failed), nothing is written, every file stays
\* as the run found it, and every repository takes a skip path.
C3_SecondRunAllSkipped ==
    (run = "again" /\ pc = "done" /\ ~args.shouldReplace /\ prev.exitCode = 0 /\ prev.clean)
        => /\ writes = <<>>
           /\ files = files0
           /\ \A i \in 1..Len(visits) : isSkip(visits[i])

\* C3 (amended): in a run without --replace that follows a run which returned
\* normally and in which no request failed, nothing is written and every file stays
\* as the run found it; a repository is skipped when its file exists or a skip rule
\* names it, and is fetched again, for a null report, when it has no file.
C3_SecondRunWritesNothing ==
    (run = "again" /\ running /\ ~args.shouldReplace /\ prev.exitCode = 0 /\ prev.clean)
        => /\ writes = <<>>
           /\ mkdirs = <<>>
           /\ files = files0
           /\ \A i \in 1..Len(visits) :
                 \/ isSkip(visits[i])
                 \/ /\ visits[i].action = "empty"
                    /\ files[visits[i].repo] = NoFile

\* C3 witness: such a second run has ended, having skipped a repository for the
\* report the first run wrote and fetched another one again for nothing.
C3_Witness ==
    /\ run = "again" /\ pc = "done" /\ ~args.shouldReplace
    /\ prev.exitCode = 0 /\ prev.clean
    /\ \E i \in 1..Len(visits) :
          visits[i].action = "exists" /\ files[visits[i].repo].kind = "report"
    /\ \E i \in 1..Len(visits) : visits[i].action = "empty"

C5_NullReportNoFile ==
    running =>
        /\ \A i \in 1..Len(visits) :
              ~isSkip(visits[i]) => (visits[i].report = "null" <=> visits[i].records = 0)
        /\ \A i \in 1..Len(writes) :
              LET report == writes[i][2]
              IN  /\ report.kind = "report"
                  /\ IF report.format = T_csv THEN Len(report.rows) >= 1
                     ELSE Len(report.sections) >= 1 /\ report.total = Len(report.sections)
        /\ Len(mkdirs) = Cardinality({i \in 1..Len(visits) : visits[i].report = "report"})
        /\ Len(writes) <= Len(mkdirs)
        /\ \A r \in RepoNames :
              (\A i \in 1..Len(visits) :
                   visits[i].repo = r => visits[i].report \in {"none", "null"})
                  => files[r] = files0[r]

\* C5 witness: the issues entry point has ended a run in which one report was null
\* and another one was written.
C5_Witness ==
    /\ pc = "done" /\ activityType = "issues"
    /\ \E i \in 1..Len(visits) : visits[i].action = "empty" /\ visits[i].records = 0
    /\ \E i \in 1..Len(visits) : visits[i].action = "written" /\ visits[i].records > 0

\* the positional arguments: what is left of the list once --replace, --omit <repo>
\* and --format <fmt> are taken out
RECURSIVE C6_positionals(_)
C6_positionals(a) ==
    IF a = <<>> THEN <<>>
    ELSE IF Head(a) \in {T_omit, T_format} /\ Len(a) >= 2 THEN C6_positionals(Tail(Tail(a)))
    ELSE IF Head(a) = T_replace THEN C6_positionals(Tail(a))
    ELSE <<Head(a)>> \o C6_positionals(Tail(a))

\* the text is a decimal integer
C6_isInteger(text) == text # <<>> /\ \A i \in 1..Len(text) : text[i] \in DecDigits

C6_badArguments(a) ==
    LET positional == C6_positionals(a)
    IN  \/ Len(positional) # 3
        \/ ~C6_isInteger(positional[3])
        \/ parseInt(positional[3]).val \notin 1..12

\* C6 (as claimed): an argument list with other than three positional arguments, or
\* with a month that is not an integer in 1..12, ends the run in a usage error, exit
\* code 1, before any request and any write; and a parsed request has its month in
\* 1..12.
C6_BadArgumentsAreFatal ==
    /\ (pc # "main" /\ C6_badArguments(argv))
           => /\ pc = "exited" /\ exitCode = 1
              /\ netCalls = 0 /\ writes = <<>> /\ mkdirs = <<>> /\ files = files0
    /\ args.ok => args.month \in 1..12

(***************************************************************************)
(* The pure functions, applied to inputs drawn from bounded sets           *)
(***************************************************************************)
MaxSampleDay == 2
MaxIssues == 3
MaxOver == 1
MaxSmall == 3
MaxDelta == 2

SampleYears == {2023, 2024}

\* no entry point is running
IdleDriver ==
    /\ argv = <<>>
    /\ activityType = "issues"
    /\ repoList = <<>>
    /\ remote = [r \in RepoNames |-> 0]
    /\ excluded = {}
    /\ files = [r \in RepoNames |-> NoFile]
    /\ files0 = [r \in RepoNames |-> NoFile]
    /\ pc = "idle"
    /\ args = NoArgs
    /\ repos = <<>>
    /\ idx = 1
    /\ exitCode = 0 - 1
    /\ failure = "none"
    /\ run = "first"
    /\ netCalls = 0
    /\ genCalls = [r \in RepoNames |-> 0]
    /\ writes = <<>>
    /\ mkdirs = <<>>
    /\ visits = <<>>
    /\ prev = NoPrev

InitFn == IdleDriver /\ IdleFn /\ IdleBatch

\* ---- determineOperation
SampleDates ==
    {newDate(y, m, d, h) : y \in SampleYears, m \in {0, 1, 11},
                           d \in 1..MaxSampleDay, h \in {0, 23}}
        \cup {InvalidDate}

StateReasons == {Null, "reopened", "completed", "not_planned", "duplicate"}

Classify ==
    /\ fn = "none"
    /\ \E updatedAt \in SampleDates, createdAt \in SampleDates,
          closedAt \in SampleDates \cup {NullDate}, stateReason \in StateReasons :
          /\ fn' = "determineOperation"
          /\ input' = [updatedAt |-> updatedAt, createdAt |-> createdAt,
                       closedAt |-> closedAt, stateReason |-> stateReason]
          /\ output' = determineOperation(updatedAt, createdAt, closedAt, stateReason)
    /\ UNCHANGED <<worldVars, runVars, files, batchVars>>

NextClassify == Classify

SpecClassify == InitFn /\ [][NextClassify]_vars

\* ---- getMonthlyIssueActivity and getMonthlyCommitActivity
\* instants around the month: the hour before it, day 1 at 00:00 and 12:00, day 15,
\* the last day at 00:00, 12:00 and 23:00, and the first hour of the next month
aroundMonth(year, month) ==
    LET first == newDate(year, month - 1, 1, 0).t
        next == newDate(year, month, 1, 0).t
    IN  <<first - 1, first, first + 12, first + 14 * HoursPerDay,
          next - HoursPerDay, next - 12, next - 1, next>>

\* instants between day 1, 00:00 and the last day, 00:00
insideMonth(year, month) ==
    LET first == newDate(year, month - 1, 1, 0).t
        next == newDate(year, month, 1, 0).t
    IN  <<first, first + 12, first + 14 * HoursPerDay, next - HoursPerDay>>

stampCycle(pattern, year, month) ==
    IF pattern.cycle = "inside" THEN insideMonth(year, month) ELSE aroundMonth(year, month)

\* the stamps of a list of records: the instants around the month taken from any
\* place of their cycle, forwards (step 1) or backwards (step 7), or the instants
\* inside the month
StampPatterns ==
    {[cycle |-> "around", shift |-> k, step |-> d] : k \in 0..7, d \in {1, 7}}
        \cup {[cycle |-> "inside", shift |-> 0, step |-> 1]}

\* the instant of record i
stampOf(pattern, year, month, i) ==
    LET cycle == stampCycle(pattern, year, month)
    IN  cycle[((i * pattern.step + pattern.shift) % Len(cycle)) + 1]

\* n raw issues
issuesAround(n, year, month, pattern) ==
    LET cycle == stampCycle(pattern, year, month)
    IN  [i \in 1..n |->
            [number |-> i, updated_at |-> DateAt(stampOf(pattern, year, month, i)),
             created_at |-> DateAt(cycle[1]), closed_at |-> NoTime,
             state_reason |-> Null, state |-> "open", assignee |-> "unassigned",
             title |-> "title", user |-> "dev", body |-> <<>>, labels |-> <<>>,
             milestone |-> ""]]

commitsAround(n, year, month, pattern) ==
    [i \in 1..n |->
            [sha |-> i, date |-> DateAt(stampOf(pattern, year, month, i)),
             html_url |-> "commit/" \o ToString(i), message |-> <<"f", "i", "x">>, author |-> "dev",
             additions |-> 1, deletions |-> 1, files |-> <<>>]]

IssueCounts == (0..MaxIssues) \cup ((PerPage - 1)..(PerPage + MaxOver))

\* short lists take every stamp pattern; the lists of about a page take the two
\* patterns that start at the head of their cycle
PatternsFor(n) ==
    IF n <= MaxIssues THEN StampPatterns
    ELSE {q \in StampPatterns : q.shift = 0 /\ q.step = 1}

\* the long lists are taken in the leap year only
YearsFor(n) == IF n <= MaxIssues THEN SampleYears ELSE {2024}

FetchIssues ==
    /\ fn = "none"
    /\ \E month \in MinMonth..MaxMonth, n \in IssueCounts, listOk \in BOOLEAN :
       \E year \in YearsFor(n), pattern \in PatternsFor(n) :
          /\ fn' = "getMonthlyIssueActivity"
          /\ input' = [year |-> year, month |-> month, listOk |-> listOk,
                       upstream |-> issuesAround(n, year, month, pattern)]
          /\ output' = getMonthlyIssueActivity(issuesAround(n, year, month, pattern),
                                               R_a, year, month, listOk)
    /\ UNCHANGED <<worldVars, runVars, files, batchVars>>

\* short histories, histories of about one page, and one of two full pages
CommitCounts ==
    (0..MaxIssues) \cup ((PerPage - 1)..(PerPage + MaxOver)) \cup {2 * PerPage}

\* the commits whose detail request fails: any of a short history; none, the first
\* or the first of the second page of a long one
DetailFailsFor(n) ==
    IF n <= MaxIssues THEN SUBSET (1..MaxIssues) ELSE {{}, {1}, {PerPage + 1}}

FetchCommits ==
    /\ fn = "none"
    /\ \E month \in MinMonth..MaxMonth, n \in CommitCounts, failPage \in 0..2 :
       \E year \in YearsFor(n), pattern \in PatternsFor(n),
          detailFails \in DetailFailsFor(n) :
          /\ fn' = "getMonthlyCommitActivity"
          /\ input' = [year |-> year, month |-> month, failPage |-> failPage,
                       detailFails |-> detailFails,
                       upstream |-> commitsAround(n, year, month, pattern)]
          /\ output' = getMonthlyCommitActivity(commitsAround(n, year, month, pattern),
                                                R_a, year, month, failPage, detailFails)
    /\ UNCHANGED <<worldVars, runVars, files, batchVars>>

NextFetch == FetchIssues \/ FetchCommits

SpecFetch == InitFn /\ [][NextFetch]_vars

\* ---- the CSV row of a commit
messageChar(i, plain) ==
    IF plain THEN "m"
    ELSE IF i % 7 = 0 THEN "," ELSE IF i % 11 = 0 THEN "\n" ELSE "m"

messageOf(len, plain) == [i \in 1..len |-> messageChar(i, plain)]

filesOf(n) == [i \in 1..n |-> "src/f" \o ToString(i)]

MessageLengths ==
    (0..MaxSmall) \cup ((CsvMessageLimit - MaxDelta)..(CsvMessageLimit + MaxDelta))

FileCounts == (0..MaxSmall) \cup ((CsvFileLimit - MaxDelta)..(CsvFileLimit + MaxDelta))

RenderCsvRow ==
    /\ fn = "none"
    /\ \E len \in MessageLengths, plain \in BOOLEAN, n \in FileCounts :
          LET commit == [url |-> "url", date |-> formatCommitDate(newDate(2024, 2, 1, 10)),
                         repo |-> R_a, message |-> messageOf(len, plain), author |-> "dev",
                         additions |-> 1, deletions |-> 1, files |-> filesOf(n)]
          IN  /\ fn' = "csvCommitRow"
              /\ input' = commit
              /\ output' = csvCommitRow(commit, T_acme)
    /\ UNCHANGED <<worldVars, runVars, files, batchVars>>

NextCsv == RenderCsvRow

SpecCsv == InitFn /\ [][NextCsv]_vars

\* whole reports, of one record, in either format
ReportFormats == {T_csv, T_nl}

formatArgv(format) == <<T_acme, T_2024, T_3, T_format, format>>

ReportFileCounts ==
    FileCounts \cup ((NlFileLimit - MaxDelta)..(NlFileLimit + MaxDelta))

BodyLengths ==
    (0..MaxSmall) \cup ((NlBodyLimit - MaxDelta)..(NlBodyLimit + MaxDelta))
        \cup ((CsvBodyLimit - MaxDelta)..(CsvBodyLimit + MaxDelta))

RenderCommitReport ==
    /\ fn = "none"
    /\ \E len \in MessageLengths, plain \in BOOLEAN, n \in ReportFileCounts,
          format \in ReportFormats :
          LET commit == [url |-> "url", date |-> formatCommitDate(newDate(2024, 2, 1, 10)),
                         repo |-> R_a, message |-> messageOf(len, plain), author |-> "dev",
                         additions |-> 1, deletions |-> 1, files |-> filesOf(n)]
          IN  /\ fn' = "generateCommitReport"
              /\ input' = [records |-> <<commit>>, format |-> format]
              /\ output' = generateCommitReport(<<commit>>, T_acme, R_a, 2024, 3,
                                                formatArgv(format))
    /\ UNCHANGED <<worldVars, runVars, files, batchVars>>

RenderIssueReport ==
    /\ fn = "none"
    /\ \E len \in BodyLengths, plain \in BOOLEAN, format \in ReportFormats :
          LET raw == [issueUpstream(1, 2024, 3)[1] EXCEPT !.body = messageOf(len, plain)]
              issue == toIssue(raw, R_a)
          IN  /\ fn' = "generateIssueReport"
              /\ input' = [records |-> <<issue>>, format |-> format]
              /\ output' = generateIssueReport(<<issue>>, T_acme, R_a, 2024, 3,
                                               formatArgv(format))
    /\ UNCHANGED <<worldVars, runVars, files, batchVars>>

NextRender == RenderCommitReport \/ RenderIssueReport

SpecRender == InitFn /\ [][NextRender]_vars

(***************************************************************************)
(* The batch driver (part_001).  It runs the report entry point inside its *)
(* own process: runActivityModule rewrites process.argv and imports the    *)
(* entry-point module.  The module does not export main; it ends with      *)
(* main().catch(...), so the first import starts main, without waiting for *)
(* it, and a later import finds the module in the cache and starts nothing.*)
(***************************************************************************)
MaxDirs == 2

T_type == <<"-", "-", "t", "y", "p", "e">>
T_commits == <<"c", "o", "m", "m", "i", "t", "s">>
T_issues == <<"i", "s", "s", "u", "e", "s">>

typeToken(type) == IF type = "commits" THEN T_commits ELSE T_issues

\* the loop of the batch driver's parseCommandLineArgs: the last --type wins
RECURSIVE batchArgsLoop(_, _, _)
batchArgsLoop(a, i, type) ==
    IF i > Len(a) THEN [ok |-> TRUE, type |-> type]
    ELSE IF a[i] = T_type /\ i + 1 <= Len(a)
    THEN LET typeArg == toLowerCase(a[i + 1])
         IN  IF typeArg # T_issues /\ typeArg # T_commits THEN Thrown("type")
             ELSE batchArgsLoop(a, i + 2, typeArg)
    ELSE batchArgsLoop(a, i + 1, type)

\* parseCommandLineArgs of the batch driver
batchParseCommandLineArgs(a) ==
    LET parsed == batchArgsLoop(a, 1, <<>>)
    IN  IF ~parsed.ok THEN parsed
        ELSE IF parsed.type = <<>> THEN Thrown("usage")
        ELSE parsed

\* getOwnersFromConfig: Object.keys(parsedConfig.github.commits)
getOwnersFromConfig == <<T_acme, T_tobrien>>

\* /^\d{1,2}$/.test(dir)
isMonthName(name) == Len(name) \in {1, 2} /\ \A i \in 1..Len(name) : name[i] \in DecDigits

\* the directory passes the filter and the test on monthInt
isMonthDirectory(dir) ==
    /\ isMonthName(dir[2])
    /\ LET monthInt == parseInt(dir[2])
       IN  ~(isNaN(monthInt) \/ monthInt.val < MinMonth \/ monthInt.val > MaxMonth)

\* the (owner, year, month) of the calls of runActivityModule, in the order of the
\* three nested loops
RECURSIVE triplesOf(_)
triplesOf(ds) ==
    IF ds = <<>> THEN <<>>
    ELSE (IF isMonthDirectory(Head(ds))
          THEN [k \in 1..Len(getOwnersFromConfig) |->
                   [owner |-> getOwnersFromConfig[k], year |-> Head(ds)[1],
                    month |-> Head(ds)[2]]]
          ELSE <<>>)
         \o triplesOf(Tail(ds))

triples == triplesOf(dirs)

\* process.argv.slice(2) as runActivityModule sets it
moduleArgv(triple) ==
    <<triple.owner, triple.year, triple.month, T_format, T_nl, T_replace>>

MonthDirs == {<<T_2024, T_3>>, <<T_2024, T_12>>, <<T_2024, T_13>>}

BatchArgvs == {<<T_type, T_commits>>, <<T_type, T_issues>>, <<T_type, T_xml>>, <<>>}

InitBatch ==
    /\ argv \in BatchArgvs
    /\ activityType = (IF argv = <<T_type, T_issues>> THEN "issues" ELSE "commits")
    /\ repoList \in SeqsUpTo(RepoNames, MaxRepos)
    /\ remote \in [RepoNames -> 0..MaxRecs]
    /\ excluded = {}
    /\ files = [r \in RepoNames |-> NoFile]
    /\ files0 = files
    /\ pc = "idle"
    /\ args = NoArgs
    /\ repos = <<>>
    /\ idx = 1
    /\ exitCode = 0 - 1
    /\ failure = "none"
    /\ run = "first"
    /\ netCalls = 0
    /\ genCalls = [r \in RepoNames |-> 0]
    /\ writes = <<>>
    /\ mkdirs = <<>>
    /\ visits = <<>>
    /\ prev = NoPrev
    /\ IdleFn
    /\ dirs \in SeqsUpTo(MonthDirs, MaxDirs)
    /\ bpc = "start"
    /\ bidx = 1
    /\ moduleLoaded = FALSE
    /\ originalArgs = <<>>
    /\ scanLog = <<>>

\* process.exit(1) of the entry point's main ended the process
terminated == pc = "exited"

\* main of the batch driver up to its loops (lines 117-126)
BatchMain ==
    /\ bpc = "start"
    /\ bpc' = (IF batchParseCommandLineArgs(argv).ok THEN "scan" ELSE "exited")
    /\ UNCHANGED <<worldVars, runVars, files, fnVars, dirs, bidx, moduleLoaded,
                   originalArgs, scanLog>>

ScanEntry(triple, started, failed) ==
    [triple |-> triple, started |-> started, failed |-> failed,
     returned |-> FALSE, complete |-> FALSE]

\* runActivityModule up to the return of import (lines 82-98).  The first import
\* evaluates the module: main() runs up to its first await, that is through
\* parseCommandLineArgs, and goes on by itself afterwards.
RunActivityModule ==
    /\ bpc = "scan" /\ ~terminated
    /\ bidx <= Len(triples)
    /\ originalArgs' = argv
    /\ argv' = moduleArgv(triples[bidx])
    /\ bpc' = "imported"
    /\ moduleLoaded' = TRUE
    /\ scanLog' = Append(scanLog, ScanEntry(triples[bidx], ~moduleLoaded, FALSE))
    /\ IF moduleLoaded
       THEN UNCHANGED <<pc, args, exitCode, failure>>
       ELSE LET parsed == parseCommandLineArgs(moduleArgv(triples[bidx]))
            IN  IF parsed.ok
                THEN /\ args' = parsed
                     /\ pc' = "init"
                     /\ UNCHANGED <<exitCode, failure>>
                ELSE /\ Exit1(parsed.error)
                     /\ UNCHANGED args
    /\ UNCHANGED <<activityType, repoList, remote, excluded, files, repos, idx, run,
                   files0, netCalls, genCalls, writes, mkdirs, visits, prev, fnVars,
                   dirs, bidx>>

\* import(modulePath) rejects (the module cannot be loaded): the catch of
\* runActivityModule throws again, process.argv is not restored, and the catch in
\* the owner loop logs the error and goes on (lines 109-111, 160-163)
ImportFails ==
    /\ bpc = "scan" /\ ~terminated
    /\ bidx <= Len(triples)
    /\ ~moduleLoaded
    /\ originalArgs' = argv
    /\ argv' = moduleArgv(triples[bidx])
    /\ scanLog' = Append(scanLog, ScanEntry(triples[bidx], FALSE, TRUE))
    /\ bidx' = bidx + 1
    /\ UNCHANGED <<activityType, repoList, remote, excluded, files, runVars, fnVars,
                   dirs, bpc, moduleLoaded>>

\* the rest of runActivityModule (lines 100-108) and the next turn of the owner loop:
\* moduleImport.main is not a function, process.argv is restored
RestoreArgs ==
    /\ bpc = "imported" /\ ~terminated
    /\ argv' = originalArgs
    /\ scanLog' = [scanLog EXCEPT ![Len(scanLog)].returned = TRUE,
                                  ![Len(scanLog)].complete = (pc = "done")]
    /\ bidx' = bidx + 1
    /\ bpc' = "scan"
    /\ UNCHANGED <<activityType, repoList, remote, excluded, files, runVars, fnVars,
                   dirs, moduleLoaded, originalArgs>>

\* the loops are over (line 168); the process lives on while main of the entry point
\* has work left
BatchDone ==
    /\ bpc = "scan" /\ ~terminated
    /\ bidx > Len(triples)
    /\ bpc' = "done"
    /\ UNCHANGED <<worldVars, runVars, files, fnVars, dirs, bidx, moduleLoaded,
                   originalArgs, scanLog>>

\* the batch driver's steps and those of the imported entry point
NextBatch ==
    \/ BatchMain \/ RunActivityModule \/ ImportFails \/ RestoreArgs \/ BatchDone
    \/ Initialize \/ ProcessRepo \/ Return

SpecBatch == InitBatch /\ [][NextBatch]_vars

(***************************************************************************)
(* Properties of the fetchers, the classifier and the CSV renderer         *)
(***************************************************************************)
numbersOf(issues) == {issues[i].number : i \in 1..Len(issues)}

urlsOf(commits) == {commits[i].url : i \in 1..Len(commits)}

\* C7 (as claimed): getMonthlyIssueActivity returns every issue of the repository
\* whose updated_at lies between the start and the end date it computes, however many
\* there are.
C7_AllIssuesReturned ==
    (fn = "getMonthlyIssueActivity" /\ input.listOk)
        => numbersOf(output)
             = {input.upstream[i].number :
                   i \in {j \in 1..Len(input.upstream) :
                             inWindow(input.upstream[j],
                                      startDateOf(input.year, input.month),
                                      endDateOf(input.year, input.month))}}

\* the instant is on day 1 or on the last day of the month
C8_onFirstOrLastDay(stamp, year, month) ==
    LET first == newDate(year, month - 1, 1, 0).t
        next == newDate(year, month, 1, 0).t
    IN  /\ stamp.valid
        /\ \/ first <= stamp.t /\ stamp.t < first + HoursPerDay
           \/ next - HoursPerDay <= stamp.t /\ stamp.t < next

\* C8 (as claimed): a record stamped at any time of day 1 or of the last day of the
\* month is inside the window: the issue filter keeps it and the commit query's
\* since/until range holds it (lists of at most one page, no failed request).
C8_FirstAndLastDayInside ==
    /\ (fn = "getMonthlyIssueActivity" /\ input.listOk /\ Len(input.upstream) <= PerPage)
          => \A i \in 1..Len(input.upstream) :
                C8_onFirstOrLastDay(input.upstream[i].updated_at, input.year, input.month)
                    => input.upstream[i].number \in numbersOf(output)
    /\ (fn = "getMonthlyCommitActivity" /\ input.failPage = 0 /\ input.detailFails = {})
          => \A i \in 1..Len(input.upstream) :
                C8_onFirstOrLastDay(input.upstream[i].date, input.year, input.month)
                    => input.upstream[i].html_url \in urlsOf(output)

\* the two dates are valid and lie in one calendar month
C9_sameCalendarMonth(a, b) ==
    /\ a.valid /\ b.valid
    /\ \E y \in 2022..2025, m \in 0..11 :
          /\ newDate(y, m, 1, 0).t <= a.t /\ a.t < newDate(y, m + 1, 1, 0).t
          /\ newDate(y, m, 1, 0).t <= b.t /\ b.t < newDate(y, m + 1, 1, 0).t

C9_base(stateReason) ==
    CASE stateReason = "reopened" -> "Reopened"
      [] stateReason = "completed" -> "Completed"
      [] stateReason = "not_planned" -> "Ignored"
      [] OTHER -> "Closed"

\* the decision table of section 4.2
C9_table(updatedAt, createdAt, closedAt, stateReason) ==
    IF closedAt # NullDate
    THEN IF C9_sameCalendarMonth(createdAt, closedAt)
         THEN "Created and " \o C9_base(stateReason)
         ELSE C9_base(stateReason)
    ELSE IF C9_sameCalendarMonth(createdAt, updatedAt)
    THEN IF createdAt.t = updatedAt.t THEN "Created"
         ELSE IF updatedAt.t - createdAt.t >= 24 THEN "Updated a New Issue"
         ELSE "Created"
    ELSE "Updated"

C9_labels ==
    {"Created", "Updated", "Updated a New Issue"}
        \cup {C9_base(r) : r \in StateReasons}
        \cup {"Created and " \o C9_base(r) : r \in StateReasons}

\* C9: determineOperation returns, for every input, the one label the decision table
\* of section 4.2 gives.
C9_ClassifierTable ==
    fn = "determineOperation"
        => /\ output = C9_table(input.updatedAt, input.createdAt, input.closedAt,
                                input.stateReason)
           /\ output \in C9_labels

\* C9 witness: an open issue updated exactly one day after it was created, in the
\* same month, is "Updated a New Issue".
C9_Witness ==
    /\ fn = "determineOperation"
    /\ input.closedAt = NullDate
    /\ input.createdAt.valid /\ input.updatedAt.valid
    /\ input.updatedAt.t - input.createdAt.t = 24
    /\ output = "Updated a New Issue"

\* C10: in a CSV commit row, an escaped message longer than 1024 characters is its
\* first 1021 characters and "...", 1024 in all, and a shorter one is unchanged; a
\* file list of n > 50 entries is its first 49 entries and "...and (n - 49) more
\* files", and a shorter one is unchanged.
C10_CsvTruncation ==
    fn = "csvCommitRow"
        => LET escaped == escapeCsv(input.message)
               n == Len(input.files)
           IN  /\ Len(escaped) = Len(input.message)
               /\ IF Len(escaped) > 1024
                  THEN /\ Len(output.message) = 1024
                       /\ SubSeq(output.message, 1, 1021) = SubSeq(escaped, 1, 1021)
                       /\ SubSeq(output.message, 1022, 1024) = <<".", ".", ".">>
                  ELSE output.message = escaped
               /\ IF n > 50
                  THEN /\ Len(output.files) = 50
                       /\ SubSeq(output.files, 1, 49) = SubSeq(input.files, 1, 49)
                       /\ output.files[50] = "...and " \o ToString(n - 49) \o " more files"
                  ELSE output.files = input.files

\* C10 witness: a message of 1025 characters and a list of 51 files have been
\* rendered: 1024 characters, and 49 entries with "...and 2 more files".
C10_Witness ==
    /\ fn = "csvCommitRow"
    /\ Len(input.message) = 1025 /\ Len(output.message) = 1024
    /\ Len(input.files) = 51 /\ Len(output.files) = 50
    /\ output.files[50] = "...and 2 more files"

\* the text ends with the ellipsis marker
C11_endsWithEllipsis(text) ==
    Len(text) >= 3 /\ SubSeq(text, Len(text) - 2, Len(text)) = <<".", ".", ".">>

\* the characters of a Markdown description, the two spaces that follow each line
\* break left out
C11_bodyLength(description) ==
    Len(description) - 2 * Cardinality({i \in 1..Len(description) : description[i] = "\n"})

\* the file names listed, the "...and n more files" marker left out
C11_fileEntries(listed, given) ==
    Cardinality({i \in 1..Len(listed) : \E j \in 1..Len(given) : listed[i] = given[j]})

\* C11 (as claimed): in a rendered report of either format a commit message longer
\* than 1024 characters is cut and ends with the ellipsis marker; an issue body takes
\* at most 1024 characters in CSV and at most 500 in Markdown; a file list shows at
\* most 50 files in CSV and at most 10 in Markdown.
C11_LongFieldsAreCut ==
    /\ (fn = "generateCommitReport" /\ output.kind = "report")
          => LET commit == input.records[1]
                 shown == IF output.format = T_csv THEN output.rows[1]
                          ELSE output.sections[1]
             IN  /\ Len(commit.message) > 1024
                    => /\ Len(shown.message) <= 1024
                       /\ C11_endsWithEllipsis(shown.message)
                 /\ C11_fileEntries(shown.files, commit.files)
                        <= (IF output.format = T_csv THEN 50 ELSE 10)
    /\ (fn = "generateIssueReport" /\ output.kind = "report")
          => IF output.format = T_csv
             THEN Len(output.rows[1].body) <= 1024
             ELSE C11_bodyLength(output.sections[1].description) <= 500

(***************************************************************************)
(* Properties of the batch driver                                          *)
(***************************************************************************)
\* C12 (as claimed): a failure while the report of one (owner, year, month) is
\* generated, inside the imported entry point included, does not terminate the
\* process, so that the scan can go on to the remaining owners and months.
C12_FailureDoesNotHaltScan ==
    (bpc # "off" /\ failure # "none") => ~terminated

\* the month directories with a month number in 1..12, each with every owner
RECURSIVE C13_expected(_)
C13_expected(ds) ==
    IF ds = <<>> THEN <<>>
    ELSE (IF C6_isInteger(Head(ds)[2]) /\ parseInt(Head(ds)[2]).val \in 1..12
          THEN <<[owner |-> T_acme, year |-> Head(ds)[1], month |-> Head(ds)[2]],
                 [owner |-> T_tobrien, year |-> Head(ds)[1], month |-> Head(ds)[2]]>>
          ELSE <<>>)
         \o C13_expected(Tail(ds))

\* C13 (as claimed): when the scan is over and no import failed, the entry point was
\* executed once for each month directory with a month in 1..12 and each owner, in
\* scan order, with that triple as its arguments, and the driver went on to the next
\* triple only when that execution had completed.
C13_OncePerTriple ==
    (bpc = "done" /\ \A i \in 1..Len(scanLog) : ~scanLog[i].failed)
        => /\ [i \in 1..Len(scanLog) |-> scanLog[i].triple] = C13_expected(dirs)
           /\ \A i \in 1..Len(scanLog) : scanLog[i].started /\ scanLog[i].complete

\* C15 (as claimed): what generateMonthlyReport renders with is the request parsed at
\* the entry of the run: rendering raises no usage error once the entry validation
\* has passed, and every report written has the format of that request; this in the
\* process of the batch driver too.
C15_RequestFixedAtEntry ==
    /\ failure # "render"
    /\ args.ok => \A i \in 1..Len(writes) : writes[i][2].format = args.format

(***************************************************************************)
(* Properties of the two fetchers                                          *)
(***************************************************************************)
\* the commits of the history dated inside [since, until] of the call
C14_matching ==
    {i \in 1..Len(input.upstream) :
        /\ startDateOf(input.year, input.month).t <= input.upstream[i].date.t
        /\ input.upstream[i].date.t <= endDateOf(input.year, input.month).t}

\* C14: getMonthlyCommitActivity asks for pages 1, 2, ... of 100 commits and stops
\* after the first page of fewer than 100, that is after m \div 100 + 1 pages for m
\* commits; when no page request fails, the result holds one record for each commit
\* of those pages whose detail request succeeded and none for the others.
C14_PagesAndDetails ==
    (fn = "getMonthlyCommitActivity"
        /\ (input.failPage = 0 \/ input.failPage > Cardinality(C14_matching) \div 100 + 1))
        => LET fetched == fetchAllCommits(input.upstream,
                                          startDateOf(input.year, input.month),
                                          endDateOf(input.year, input.month),
                                          1, <<>>, input.failPage)
               kept == {i \in C14_matching : input.upstream[i].sha \notin input.detailFails}
           IN  /\ fetched.ok
               /\ fetched.pages = Cardinality(C14_matching) \div 100 + 1
               /\ Len(fetched.data) = Cardinality(C14_matching)
               /\ Len(output) = Cardinality(kept)
               /\ urlsOf(output) = {input.upstream[i].html_url : i \in kept}

\* C14 witness: a history of 101 commits in the window was fetched in two pages, the
\* detail request of one commit failed, and the other 100 commits are in the result.
C14_Witness ==
    /\ fn = "getMonthlyCommitActivity"
    /\ input.failPage = 0
    /\ Cardinality(C14_matching) = 101
    /\ input.detailFails = {1}
    /\ Len(output) = 100
    /\ input.upstream[1].html_url \notin urlsOf(output)

\* updated_at of the upstream issue that a returned issue was made from
C16_updatedAt(issue) == input.upstream[issue.number].updated_at

====
